---- MODULE Spec2Model ----
(***************************************************************************)
(* PragaTrends: collection of search-interest series per pest category     *)
(* (coletor_trends.py), the SQLite table 'trends' they are upserted into,  *)
(* the per-category query (visualizador.py) and the dashboard's mixed      *)
(* monthly/weekly aggregation and re-normalisation (dashboard.py).         *)
(*                                                                         *)
(* Four specifications share the module:                                   *)
(*   SpecFetch  buscar_dados_trends as a function of the provider's        *)
(*              answers, retries and initial_delay;                        *)
(*   Spec       collection runs (coletor_trends.main) over the store;      *)
(*   SpecDash   the dashboard's aggregation of one category of the store.  *)
(*   SpecEntradas  the collection runs together with the reading entry     *)
(*              points (dashboard, viewer, batch chart generator).         *)
(***************************************************************************)
EXTENDS Integers, Sequences, FiniteSets, TLC

VARIABLES
    \* --- buscar_dados_trends, called on its own (SpecFetch) ---
    entrada,     \* the call's arguments and the provider's answers
    retorno,     \* what the call returned and did, once it has returned
    \* --- collection runs (Spec) ---
    bancos,      \* the SQLite files: file name -> [existe, tabela, linhas]
    pc,          \* position of coletor_trends.main
    idx,         \* index of the next category of CATEGORIAS_PRAGAS
    fetched,     \* categories passed to buscar_dados_trends in this run
    resultado,   \* per category, what this run's iteration did
    saida,       \* how the last main() ended for its caller
    chamador,    \* who called main(): the script or the dashboard
    runs,        \* number of runs started
    \* --- the dashboard (SpecDash) ---
    painel,      \* one execution of dashboard.py: its selections and frames
    \* --- the reading entry points (SpecEntradas) ---
    leitura,     \* the latest execution of a reading entry point since the
                 \* latest collection run: what it listed, loaded and drew
    \* --- history, read by the properties only ---
    antes,       \* the collector's file before the latest iteration
    fatal        \* an exception reached main's try block in this run

vars == <<entrada, retorno, bancos, pc, idx, fetched, resultado, saida, chamador,
          runs, painel, leitura, antes, fatal>>

fetchVars == <<entrada, retorno>>
runVars == <<bancos, pc, idx, fetched, resultado, saida, chamador, runs, antes, fatal>>
dashVars == <<painel>>
leitorVars == <<leitura>>

----------------------------------------------------------------------------
(* Bounds *)

MaxRetries == 4      \* largest retries argument and length of the answer script
MaxRuns == 2         \* collection runs per behaviour

(* Program constants *)

RETRIES_DEFAULT == 3         \* retries=3
INITIAL_DELAY_DEFAULT == 10  \* initial_delay=10

None == "None"

----------------------------------------------------------------------------
(* The provider's answer to one request (TrendReq / interest_over_time):   *)
(*   "dados"     a non-empty frame                                         *)
(*   "vazio"     an empty frame                                            *)
(*   "limite"    the rate-limit error, whose text carries the code 429     *)
(*   "outro"     another exception, whose text has no "429" in it          *)
(*   "outro429"  another exception whose text happens to contain "429"    *)
(*               (an address, a port, a token in the message)              *)
Respostas == {"dados", "vazio", "limite", "outro", "outro429"}

EhExcecao(r) == r \in {"limite", "outro", "outro429"}

EhRateLimit(r) == r = "limite"

\* '429' in str(e)
Tem429(r) == r \in {"limite", "outro429"}

\* A backoff that counts attempts from 1.
Pow2CountsFromOne(n) == 2 ^ (n + 1)

\* 2 ** attempt
Pow2(n) == 2 ^ n

Ev(e, n) == [ev |-> e, n |-> n]

\* A retry branch that sleeps after the last attempt too.
RetrySemUltimoTeste(attempt, retries, initial_delay, trace) ==
    [fim |-> FALSE, ret |-> None,
     trace |-> trace \o <<Ev("print", attempt),
                          Ev("sleep", initial_delay * Pow2(attempt))>>]

\* The branch taken on a rate-limit error (lines 77-83): sleep and go round
\* the loop again, or give up on the last attempt.
RetryOuDesiste(attempt, retries, initial_delay, trace) ==
    IF attempt < retries - 1
    THEN [fim |-> FALSE, ret |-> None,
          trace |-> trace \o <<Ev("print", attempt),
                               Ev("sleep", initial_delay * Pow2(attempt))>>]
    ELSE [fim |-> TRUE, ret |-> None, trace |-> Append(trace, Ev("print", attempt))]

\* The except clause (lines 75-87).
TrataExcecao(r, attempt, retries, initial_delay, trace) ==
    IF Tem429(r)
    THEN RetryOuDesiste(attempt, retries, initial_delay, trace)
    ELSE [fim |-> TRUE, ret |-> None, trace |-> Append(trace, Ev("print", attempt))]

\* One iteration of the for loop (lines 59-87) on the provider's answer r.
Tentativa(r, attempt, retries, initial_delay, trace) ==
    LET t1 == Append(trace, Ev("req", attempt)) IN
    IF EhExcecao(r)
    THEN TrataExcecao(r, attempt, retries, initial_delay, t1)
    ELSE IF r = "vazio"
         THEN [fim |-> TRUE, ret |-> None, trace |-> t1]
         ELSE [fim |-> TRUE, ret |-> "df", trace |-> t1]

RECURSIVE Laco(_, _, _, _, _)
\* for attempt in range(retries): ... ; return None (lines 58-88)
Laco(script, attempt, retries, initial_delay, trace) ==
    IF attempt >= retries
    THEN [ret |-> None, trace |-> trace]
    ELSE LET t == Tentativa(script[attempt + 1], attempt, retries, initial_delay, trace)
         IN IF t.fim
            THEN [ret |-> t.ret, trace |-> t.trace]
            ELSE Laco(script, attempt + 1, retries, initial_delay, t.trace)

\* buscar_dados_trends(termos, geo, timeframe, retries, initial_delay), the
\* provider answering its k-th request with script[k].
buscar_dados_trends(script, retries, initial_delay) ==
    Laco(script, 0, retries, initial_delay, <<>>)

\* Projections of a trace.
RECURSIVE Filtra(_, _)
Filtra(trace, e) ==
    IF trace = <<>> THEN <<>>
    ELSE IF Head(trace).ev = e
         THEN <<Head(trace).n>> \o Filtra(Tail(trace), e)
         ELSE Filtra(Tail(trace), e)

\* The provider's answers to the requests of one call, one per attempt.
Scripts == [1..MaxRetries -> Respostas]

SemChamada == [ret |-> "pendente", trace |-> <<>>]

Requests(trace) == Filtra(trace, "req")
Sleeps(trace) == Filtra(trace, "sleep")

----------------------------------------------------------------------------
(* Dates.  A pandas Timestamp at midnight is a day number counted from     *)
(* 2024-12-01, a Sunday; the calendar covers the months of Meses.  The     *)
(* table stores dates as TEXT "YYYY-MM-DD", a sequence of character codes.  *)

Meses == << [ano |-> 2024, mes |-> 12, dias |-> 31],
            [ano |-> 2025, mes |-> 1, dias |-> 31],
            [ano |-> 2025, mes |-> 2, dias |-> 28],
            [ano |-> 2025, mes |-> 3, dias |-> 31] >>

RECURSIVE DiasAntes(_)
\* days of the calendar before month number i of Meses
DiasAntes(i) == IF i = 1 THEN 0 ELSE DiasAntes(i - 1) + Meses[i - 1].dias

Dias == 0..(DiasAntes(Len(Meses)) + Meses[Len(Meses)].dias - 1)

\* For each day, the index in Meses of the month it falls in.
MesDoDia ==
    [ n \in Dias |->
        CHOOSE i \in 1..Len(Meses) : DiasAntes(i) <= n /\ n < DiasAntes(i) + Meses[i].dias ]

\* Timestamp.to_period('M'), as an index in Meses
MesDe(n) == MesDoDia[n]

\* Period.to_timestamp(): the first day of month number i of Meses
InicioDe == [ i \in 1..Len(Meses) |-> DiasAntes(i) ]

YMD(n) == [ano |-> Meses[MesDe(n)].ano, mes |-> Meses[MesDe(n)].mes,
           dia |-> n - DiasAntes(MesDe(n)) + 1]

Hifen == 45
Digito(k) == 48 + k

\* Timestamp.strftime('%Y-%m-%d')
strftime(n) ==
    LET d == YMD(n) IN
    << Digito(d.ano \div 1000), Digito((d.ano \div 100) % 10),
       Digito((d.ano \div 10) % 10), Digito(d.ano % 10), Hifen,
       Digito(d.mes \div 10), Digito(d.mes % 10), Hifen,
       Digito(d.dia \div 10), Digito(d.dia % 10) >>

\* pd.to_datetime on an ISO "YYYY-MM-DD" text
to_datetime(t) ==
    LET v(i) == t[i] - 48
        ano == v(1) * 1000 + v(2) * 100 + v(3) * 10 + v(4)
        mes == v(6) * 10 + v(7)
        dia == v(9) * 10 + v(10)
        i == CHOOSE k \in 1..Len(Meses) : Meses[k].ano = ano /\ Meses[k].mes = mes
    IN DiasAntes(i) + dia - 1

\* strftime and to_datetime over the calendar, tabulated.
TextoDe == [ n \in Dias |-> strftime(n) ]
Textos == { TextoDe[n] : n \in Dias }
DiaDe == [ t \in Textos |-> to_datetime(t) ]

RECURSIVE TextoMenorIgual(_, _)
\* a <= b for TEXT values (SQLite's BINARY collation: memcmp, then length)
TextoMenorIgual(a, b) ==
    IF a = <<>> THEN TRUE
    ELSE IF b = <<>> THEN FALSE
    ELSE IF Head(a) < Head(b) THEN TRUE
    ELSE IF Head(a) > Head(b) THEN FALSE
    ELSE TextoMenorIgual(Tail(a), Tail(b))

----------------------------------------------------------------------------
(* Configuration (coletor_trends.py lines 20-30).  The category map is cut  *)
(* to its first two categories and to two and one of their terms.          *)

CATEGORIAS_PRAGAS == << [categoria |-> "Lesmas", keywords |-> <<"lesma", "caracol">>],
                        [categoria |-> "Ratos", keywords |-> <<"rato">>] >>

NumCategorias == Len(CATEGORIAS_PRAGAS)

Categorias == { CATEGORIAS_PRAGAS[i].categoria : i \in 1..NumCategorias }

GEOLOCATION == "BR"

DB_FILE == "tendencias_pragas_v4.db"

\* visualizador.DB_FILE
DB_FILE_VISUALIZADOR == "tendencias_pragas.db"

Arquivos == {DB_FILE, DB_FILE_VISUALIZADOR}

----------------------------------------------------------------------------
(* The table 'trends' (lines 38-47).  A row is a record; the table is the  *)
(* set of its rows.                                                        *)

Linha(data, termo, interesse, geo, categoria) ==
    [data |-> data, termo_busca |-> termo, interesse |-> interesse,
     geolocalizacao |-> geo, categoria |-> categoria]

\* PRIMARY KEY (data, termo_busca, geolocalizacao, categoria)
Chave(r) == <<r.data, r.termo_busca, r.geolocalizacao, r.categoria>>

ArquivoAusente == [existe |-> FALSE, tabela |-> FALSE, linhas |-> {}]

\* sqlite3.connect(db_file): the file is created when it is absent.
connect(b) == [b EXCEPT !.existe = TRUE]

\* iniciar_banco (lines 32-52): CREATE TABLE IF NOT EXISTS, committed; an
\* sqlite3.Error is printed and the function returns.
iniciar_banco(b, falha) ==
    IF falha THEN b ELSE [connect(b) EXCEPT !.tabela = TRUE]

\* A plain INSERT into a table without the primary key.
InsertSemChave(linhas, r) == linhas \cup {r}

\* INSERT OR REPLACE INTO trends ... VALUES (?, ?, ?, ?, ?): the row that
\* holds the new row's primary key, if any, is deleted first.
InsertOrReplace(linhas, r) ==
    { x \in linhas : Chave(x) # Chave(r) } \cup {r}

RECURSIVE executemany(_, _, _)
\* cursor.executemany on the first k rows of dados
executemany(linhas, dados, k) ==
    IF k = 0 THEN linhas
    ELSE InsertOrReplace(executemany(linhas, dados, k - 1), dados[k])

----------------------------------------------------------------------------
(* salvar_dados_no_banco (lines 90-119).  A frame df is a function from    *)
(* <<date, term>> to interest, its index the dates and its columns the     *)
(* terms.                                                                  *)

Indice(df) == { p[1] : p \in DOMAIN df }

RECURSIVE Ordenado(_)
\* the elements of a set of numbers in ascending order
Ordenado(S) ==
    IF S = {} THEN <<>>
    ELSE LET m == CHOOSE x \in S : \A y \in S : x <= y
         IN <<m>> \o Ordenado(S \ {m})

RECURSIVE Concat(_, _)
Concat(f, n) == IF n = 0 THEN <<>> ELSE Concat(f, n - 1) \o f[n]

\* df.reset_index().melt(id_vars='date', ...) with the geolocalizacao,
\* categoria and data columns added, as the list dados_para_salvar: one row
\* per term column and per date, column after column (lines 93-108).
dados_para_salvar(df, keywords, categoria, geolocation) ==
    LET datas == Ordenado(Indice(df))
        coluna(j) == [ i \in 1..Len(datas) |->
                         Linha(TextoDe[datas[i]], keywords[j],
                               df[<<datas[i], keywords[j]>>], geolocation, categoria) ]
    IN Concat([ j \in 1..Len(keywords) |-> coluna(j) ], Len(keywords))

\* Where a save fails: nowhere; before any row is written (the reshape, the
\* connect, a missing table); in executemany after k rows; in commit.
Falhas(n) ==
    {[em |-> "nada", k |-> n], [em |-> "antes", k |-> 0], [em |-> "commit", k |-> n]}
        \cup { [em |-> "execute", k |-> k] : k \in 0..(n - 1) }

\* A connection in autocommit mode: every executed row is durable.
FimDaTransacaoAutocommit(b, dados, falha) ==
    IF falha.em = "antes" THEN b
    ELSE [b EXCEPT !.linhas = executemany(b.linhas, dados, falha.k)]

\* What the file holds after the connection's transaction ends: the rows
\* are written inside the implicit transaction opened by the first INSERT,
\* conn.commit() (line 115) makes them durable, and on an exception the
\* connection is dropped uncommitted, which rolls the transaction back.
FimDaTransacao(b, dados, falha) ==
    IF falha.em = "nada"
    THEN [b EXCEPT !.linhas = executemany(b.linhas, dados, Len(dados))]
    ELSE b

\* salvar_dados_no_banco(df, categoria, geolocation, db_file): the file
\* afterwards, whether the except clause (lines 118-119) printed, and the
\* number of rows executemany had written when the save failed.
salvar_dados_no_banco(b, df, keywords, categoria, geolocation, falha) ==
    LET dados == dados_para_salvar(df, keywords, categoria, geolocation)
        f == IF falha.em = "nada" /\ ~b.tabela
             THEN [em |-> "execute", k |-> 0]     \* no such table: trends
             ELSE falha
        c == IF f.em = "antes" THEN b ELSE connect(b)
    IN [banco |-> FimDaTransacao(c, dados, f),
        erro |-> f.em # "nada",
        k |-> f.k]

----------------------------------------------------------------------------
(* visualizador.py: the queries.                                           *)

\* Rows returned whatever their category.
SelecionaSemWhere(linhas, categoria) ==
    { [data |-> r.data, termo_busca |-> r.termo_busca, interesse |-> r.interesse] :
        r \in linhas }

\* SELECT data, termo_busca, interesse FROM trends WHERE categoria = ?
Seleciona(linhas, categoria) ==
    { [data |-> r.data, termo_busca |-> r.termo_busca, interesse |-> r.interesse] :
        r \in { x \in linhas : x.categoria = categoria } }

RECURSIVE OrderByData(_)
\* ORDER BY data: every order of the rows with data ascending as TEXT (the
\* order of rows with equal data is the engine's choice)
OrderByData(S) ==
    IF S = {} THEN {<<>>}
    ELSE UNION { { <<r>> \o t : t \in OrderByData(S \ {r}) } :
                 r \in { x \in S : \A y \in S : TextoMenorIgual(x.data, y.data) } }

\* buscar_dados_categoria(categoria, db_file) (lines 70-80): the frames the
\* call may return; an exception (no table) gives the empty frame.
buscar_dados_categoria(categoria, b) ==
    IF ~b.tabela THEN {<<>>}
    ELSE OrderByData(Seleciona(b.linhas, categoria))

----------------------------------------------------------------------------
(* coletor_trends.main (lines 121-149).                                    *)

\* Dates the provider's frames are indexed by: 2024-12-30 and 2025-01-06.
DatasColeta == {29, 36}

Interesses == {10, 20}

ParaConjunto(seq) == { seq[i] : i \in 1..Len(seq) }

\* The non-empty frames the provider may return for a list of terms.
Frames(keywords) ==
    UNION { [ D \X ParaConjunto(keywords) -> Interesses ] :
            D \in (SUBSET DatasColeta) \ {{}} }

SemFrame == <<>>

\* What an iteration did: its outcome, the frame it saved and, when the save
\* failed, the number of rows executemany had written before the failure.
Feito(estado, df, k) == [estado |-> estado, df |-> df, k |-> k]

Pendente == Feito("pendente", SemFrame, 0)

\* How a call ended: what it returned and the provider's answer to its last
\* request ("nenhum" when it issued none).
Resumo(sc, retries, initial_delay) ==
    LET r == buscar_dados_trends(sc, retries, initial_delay)
        n == Len(Requests(r.trace))
    IN [ret |-> r.ret, motivo |-> IF n = 0 THEN "nenhum" ELSE sc[n]]

\* How buscar_dados_trends may end when main calls it (line 133, retries and
\* initial_delay at their defaults), over every sequence of provider answers.
RetornosDoFetch ==
    { Resumo(sc, RETRIES_DEFAULT, INITIAL_DELAY_DEFAULT) : sc \in Scripts }

\* A handler that prints and goes on to the next category.
TrataFatalEngole(i) == [pc |-> "loop", idx |-> i + 1, saida |-> "nenhuma"]

\* except Exception as e: print(...); raise e (lines 146-149): the loop is
\* left and the exception reaches main's caller.
TrataFatal(i) == [pc |-> "raised", idx |-> i, saida |-> "excecao"]

\* A loop that stops at the first category without data or whose save fails.
ProximoPassoParaNaFalha(i, estado) ==
    IF estado = "salvo"
    THEN [pc |-> "loop", idx |-> i + 1, saida |-> "nenhuma"]
    ELSE [pc |-> "done", idx |-> i, saida |-> "retornou"]

\* The end of one iteration (lines 138-143): whatever the fetch and the save
\* did, the loop goes on to the next category.
ProximoPasso(i, estado) == [pc |-> "loop", idx |-> i + 1, saida |-> "nenhuma"]

\* dashboard.py before it has run.
PainelParado == [estado |-> "parado"]

\* No reading entry point has run since the latest collection run.
SemLeitura == [quem |-> "nenhum", categorias |-> <<>>, escolhida |-> "nenhuma",
               registros |-> {}, graficos |-> {}]

\* garantir_dados_locais (dashboard.py lines 19-29) calls main() only when
\* the file is absent; the script's __main__ block calls it always.
PodeChamar(quem) ==
    quem = "dashboard" => ~bancos[DB_FILE].existe

InitRun ==
    /\ bancos = [f \in Arquivos |-> ArquivoAusente]
    /\ antes = ArquivoAusente
    /\ pc = "off"
    /\ idx = 0
    /\ fetched = <<>>
    /\ resultado = [c \in Categorias |-> Pendente]
    /\ saida = "nenhuma"
    /\ fatal = FALSE
    /\ chamador = "nenhum"
    /\ runs = 0
    /\ leitura = SemLeitura

FetchIdle ==
    /\ entrada = [retries |-> 0, initial_delay |-> 0, script |-> <<>>]
    /\ retorno = SemChamada

Init == InitRun /\ FetchIdle /\ painel = PainelParado

\* main() is called: iniciar_banco(DB_FILE), then the loop is entered
\* (lines 123-129).
IniciaColeta ==
    /\ pc \in {"off", "done", "raised"}
    /\ runs < MaxRuns
    /\ \E quem \in {"script", "dashboard"} :
          /\ PodeChamar(quem)
          /\ chamador' = quem
    /\ \E falha \in BOOLEAN :
          bancos' = [bancos EXCEPT ![DB_FILE] = iniciar_banco(@, falha)]
    /\ antes' = bancos'[DB_FILE]
    /\ pc' = "loop"
    /\ idx' = 1
    /\ fetched' = <<>>
    /\ resultado' = [c \in Categorias |-> Pendente]
    /\ saida' = "nenhuma"
    /\ fatal' = FALSE
    /\ runs' = runs + 1
    /\ leitura' = SemLeitura
    /\ UNCHANGED <<fetchVars, dashVars>>

\* One iteration of the loop (lines 129-143).
ProcessaCategoria ==
    /\ pc = "loop"
    /\ idx <= NumCategorias
    /\ LET cat == CATEGORIAS_PRAGAS[idx].categoria
           keywords == CATEGORIAS_PRAGAS[idx].keywords
       IN /\ fetched' = Append(fetched, cat)
          /\ antes' = bancos[DB_FILE]
          /\ \E r \in RetornosDoFetch :
                IF r.ret = "df"
                THEN \E df \in Frames(keywords) :
                     \E falha \in Falhas(Cardinality(DOMAIN df)) :
                        LET s == salvar_dados_no_banco(bancos[DB_FILE], df, keywords,
                                                       cat, GEOLOCATION, falha)
                            estado == IF s.erro THEN "falha" ELSE "salvo"
                            p == ProximoPasso(idx, estado)
                        IN /\ bancos' = [bancos EXCEPT ![DB_FILE] = s.banco]
                           /\ resultado' = [resultado EXCEPT
                                              ![cat] = IF s.erro
                                                       THEN Feito(estado, SemFrame, s.k)
                                                       ELSE Feito(estado, df, 0)]
                           /\ pc' = p.pc
                           /\ idx' = p.idx
                           /\ saida' = p.saida
                ELSE LET estado == IF EhExcecao(r.motivo) THEN "erro_fetch" ELSE "sem_dados"
                         p == ProximoPasso(idx, estado)
                     IN /\ bancos' = bancos
                        /\ resultado' = [resultado EXCEPT
                                           ![cat] = Feito(estado, SemFrame, 0)]
                        /\ pc' = p.pc
                        /\ idx' = p.idx
                        /\ saida' = p.saida
    /\ UNCHANGED <<fatal, chamador, runs, fetchVars, dashVars, leitorVars>>

\* An exception raised by the loop's own statements (a print or time.sleep
\* that fails, lines 130-143), which neither buscar_dados_trends nor
\* salvar_dados_no_banco catches: before the fetch of category idx, or in the
\* statements that end the iteration before it.  The except clause of main
\* takes it.
ErroFatal ==
    /\ pc = "loop"
    /\ LET p == TrataFatal(idx)
       IN /\ pc' = p.pc
          /\ idx' = p.idx
          /\ saida' = p.saida
    /\ fatal' = TRUE
    /\ UNCHANGED <<bancos, antes, fetched, resultado, chamador, runs, fetchVars, dashVars,
                   leitorVars>>

\* The loop is exhausted: main returns (line 145).
ConcluiColeta ==
    /\ pc = "loop"
    /\ idx > NumCategorias
    /\ pc' = "done"
    /\ saida' = "retornou"
    /\ UNCHANGED <<bancos, antes, idx, fetched, resultado, fatal, chamador, runs, fetchVars,
                   dashVars, leitorVars>>

Next ==
    \/ IniciaColeta
    \/ ProcessaCategoria
    \/ ErroFatal
    \/ ConcluiColeta

Spec == Init /\ [][Next]_vars

----------------------------------------------------------------------------
(* Properties of the collection runs.                                      *)

Tabela == bancos[DB_FILE].linhas

Processou == fetched # <<>>

\* The category of the latest iteration, its terms and its outcome.
UltimaCategoria == fetched[Len(fetched)]
UltimaConfig == CATEGORIAS_PRAGAS[Len(fetched)]
Ultimo == resultado[UltimaCategoria]

\* The rows the latest iteration passed to executemany.
UltimoLote ==
    ParaConjunto(dados_para_salvar(Ultimo.df, UltimaConfig.keywords,
                                   UltimaCategoria, GEOLOCATION))

Salvou == Processou /\ Ultimo.estado = "salvo"
FalhouAoSalvar == Processou /\ Ultimo.estado = "falha"

DaCategoria(linhas, c) == { r \in linhas : r.categoria = c }

Chaves(linhas) == { Chave(r) : r \in linhas }

ChaveUnica ==
    \A r1, r2 \in Tabela : Chave(r1) = Chave(r2) => r1 = r2

\* C1: no two stored rows share the key (date, term, geolocation, category);
\* after a save, every key of the batch holds the batch's interest value, and
\* the category's row count is the number of distinct keys, so a batch whose
\* keys were all stored already leaves the count unchanged.
C1_UpsertSemDuplicar ==
    /\ ChaveUnica
    /\ Salvou =>
         /\ \A r \in UltimoLote :
               { x \in Tabela : Chave(x) = Chave(r) } = {r}
         /\ Cardinality(DaCategoria(Tabela, UltimaCategoria)) =
               Cardinality(Chaves(DaCategoria(antes.linhas, UltimaCategoria))
                             \cup Chaves(UltimoLote))
         /\ Chaves(UltimoLote) \subseteq Chaves(antes.linhas) =>
               Cardinality(DaCategoria(Tabela, UltimaCategoria)) =
                  Cardinality(DaCategoria(antes.linhas, UltimaCategoria))

\* A save overwrote a stored key with a different interest value.
C1_Witness ==
    /\ Salvou
    /\ \E r \in UltimoLote : \E o \in antes.linhas :
          /\ Chave(o) = Chave(r)
          /\ o.interesse # r.interesse
          /\ r \in Tabela
          /\ o \notin Tabela
    /\ Cardinality(DaCategoria(Tabela, UltimaCategoria)) =
          Cardinality(DaCategoria(antes.linhas, UltimaCategoria))

Projecao(linhas) ==
    { [data |-> r.data, termo_busca |-> r.termo_busca, interesse |-> r.interesse] :
        r \in linhas }

DatasCrescentes(res) ==
    \A i \in 1..(Len(res) - 1) : DiaDe[res[i].data] <= DiaDe[res[i + 1].data]

\* C2 as stated: after a batch for category C is saved, get_category(C)
\* returns exactly the batch's records, no more and no fewer, by date
\* ascending.
C2_ExatamenteOLote ==
    Salvou =>
       \A res \in buscar_dados_categoria(UltimaCategoria, bancos[DB_FILE]) :
          /\ ParaConjunto(res) = Projecao(UltimoLote)
          /\ Len(res) = Cardinality(UltimoLote)
          /\ DatasCrescentes(res)

\* C2, amended: after a batch for category C is saved, get_category(C)
\* returns exactly the records stored for C, each once: the batch's records
\* and the records saved earlier for C under keys the batch does not hold;
\* they come by date ascending, and no record of another category is among
\* them.
C2_LoteMaisAnteriores ==
    Salvou =>
       LET mantidas == { r \in DaCategoria(antes.linhas, UltimaCategoria) :
                           Chave(r) \notin Chaves(UltimoLote) }
       IN \A res \in buscar_dados_categoria(UltimaCategoria, bancos[DB_FILE]) :
             /\ ParaConjunto(res) = Projecao(UltimoLote \cup mantidas)
             /\ Len(res) = Cardinality(UltimoLote \cup mantidas)
             /\ DatasCrescentes(res)
             /\ \A i \in 1..Len(res) :
                   \E r \in Tabela :
                      /\ r.categoria = UltimaCategoria
                      /\ Projecao({r}) = {res[i]}

\* A save into a store that holds another category's rows and rows of the
\* same category from an earlier run.
C2_Witness ==
    /\ Salvou
    /\ UltimaCategoria = "Ratos"
    /\ DaCategoria(Tabela, "Lesmas") # {}
    /\ DaCategoria(antes.linhas, "Ratos") # {}
    /\ Cardinality(UltimoLote) = 2
    /\ \E res \in buscar_dados_categoria("Ratos", bancos[DB_FILE]) :
          /\ Len(res) = 2
          /\ DiaDe[res[1].data] < DiaDe[res[2].data]

\* The iterations of this run so far, in configuration order.
PrefixoDaConfig(n) == [ i \in 1..n |-> CATEGORIAS_PRAGAS[i].categoria ]

LoteDe(i) ==
    ParaConjunto(dados_para_salvar(resultado[CATEGORIAS_PRAGAS[i].categoria].df,
                                   CATEGORIAS_PRAGAS[i].keywords,
                                   CATEGORIAS_PRAGAS[i].categoria, GEOLOCATION))

\* C6: a provider error or a storage error in one category's iteration
\* affects that category only.  While no exception has reached main's own
\* handler, the categories fetched so far are the configured ones, each once
\* and in configuration order; a run that returns has fetched them all, and
\* the batch of every category that was fetched and saved is in the table,
\* whatever happened to the categories before it.
C6_FalhaIsolada ==
    (~fatal /\ pc \in {"loop", "done"}) =>
       /\ fetched = PrefixoDaConfig(idx - 1)
       /\ pc = "done" => fetched = PrefixoDaConfig(NumCategorias)
       /\ \A i \in 1..Len(fetched) :
             /\ resultado[fetched[i]].estado # "pendente"
             /\ resultado[fetched[i]].estado = "salvo" => LoteDe(i) \subseteq Tabela

\* A run that returned: the first category failed (provider error or save
\* error) and the second was fetched, saved and is stored.
C6_Witness ==
    /\ pc = "done"
    /\ ~fatal
    /\ resultado["Lesmas"].estado \in {"erro_fetch", "falha"}
    /\ resultado["Ratos"].estado = "salvo"
    /\ LoteDe(2) # {}
    /\ LoteDe(2) \subseteq Tabela

\* C7: a batch is saved whole or not at all.  A save that fails is printed
\* and not raised (the iteration ends and the loop goes on), and the table
\* holds exactly the rows it held before the call; a save that succeeds
\* leaves every row of the batch in the table.
C7_LoteAtomico ==
    /\ FalhouAoSalvar =>
          /\ Tabela = antes.linhas
          /\ bancos[DB_FILE].tabela = antes.tabela
          /\ idx = Len(fetched) + 1
          /\ ~fatal => pc \in {"loop", "done"}
    /\ Salvou => UltimoLote \subseteq Tabela

\* A save failed after executemany had written three rows, into a table
\* that held rows: the table is as it was and the loop goes on.
C7_Witness ==
    /\ FalhouAoSalvar
    /\ antes.tabela
    /\ antes.linhas # {}
    /\ Ultimo.k = 3
    /\ Tabela = antes.linhas
    /\ pc = "loop"

\* C8: an exception that reaches main's try block (a fatal error, not one
\* that buscar_dados_trends or salvar_dados_no_banco handles) ends the run:
\* main is left with the exception raised to its caller, and no category
\* after the point of the error is fetched or saved in that run.
C8_FatalAborta ==
    fatal =>
       /\ pc = "raised"
       /\ saida = "excecao"
       /\ Len(fetched) = idx - 1
       /\ \A i \in idx..NumCategorias :
             resultado[CATEGORIAS_PRAGAS[i].categoria] = Pendente

\* A fatal error after the first category: the second is never processed.
C8_Witness ==
    /\ fatal
    /\ pc = "raised"
    /\ saida = "excecao"
    /\ chamador = "dashboard"
    /\ fetched = <<"Lesmas">>
    /\ resultado["Ratos"] = Pendente

----------------------------------------------------------------------------
(* SpecFetch: one call of buscar_dados_trends *)

Delays == {0, 1, INITIAL_DELAY_DEFAULT}

InitFetch ==
    /\ entrada \in [retries : 0..MaxRetries, initial_delay : Delays, script : Scripts]
    /\ retorno = SemChamada
    /\ InitRun
    /\ painel = PainelParado

Chamar ==
    /\ retorno.ret = "pendente"
    /\ retorno' = buscar_dados_trends(entrada.script, entrada.retries,
                                      entrada.initial_delay)
    /\ UNCHANGED <<entrada, runVars, dashVars, leitorVars>>

NextFetch == Chamar

SpecFetch == InitFetch /\ [][NextFetch]_vars

Retornou == retorno.ret # "pendente"

\* The trace without its log lines: requests and sleeps in order.
RECURSIVE SemPrints(_)
SemPrints(trace) ==
    IF trace = <<>> THEN <<>>
    ELSE IF Head(trace).ev = "print"
         THEN SemPrints(Tail(trace))
         ELSE <<Head(trace)>> \o SemPrints(Tail(trace))

\* req 0, sleep d*2^0, req 1, sleep d*2^1, ..., req n-1
RECURSIVE Alternado(_, _)
Alternado(n, d) ==
    IF n = 0 THEN <<>>
    ELSE IF n = 1 THEN <<Ev("req", 0)>>
         ELSE Alternado(n - 1, d) \o <<Ev("sleep", d * 2 ^ (n - 2)), Ev("req", n - 1)>>

\* C3: with retries=3, a rate-limit error on the first and second request and
\* a non-empty result on the third, the call returns that result after
\* exactly three requests and two sleeps, of initial_delay*1 and then
\* initial_delay*2, each between the failed request and the next one.
C3_SucessoNaTerceira ==
    ( /\ Retornou
      /\ entrada.retries = 3
      /\ entrada.script[1] = "limite"
      /\ entrada.script[2] = "limite"
      /\ entrada.script[3] = "dados" )
    => /\ retorno.ret = "df"
       /\ Requests(retorno.trace) = <<0, 1, 2>>
       /\ Sleeps(retorno.trace) = <<entrada.initial_delay * 1, entrada.initial_delay * 2>>
       /\ SemPrints(retorno.trace) =
             <<Ev("req", 0), Ev("sleep", entrada.initial_delay * 1),
               Ev("req", 1), Ev("sleep", entrada.initial_delay * 2),
               Ev("req", 2)>>

C3_Witness ==
    /\ Retornou
    /\ entrada.retries = 3
    /\ entrada.initial_delay = INITIAL_DELAY_DEFAULT
    /\ entrada.script[1] = "limite"
    /\ entrada.script[2] = "limite"
    /\ entrada.script[3] = "dados"
    /\ retorno.ret = "df"
    /\ Sleeps(retorno.trace) = <<10, 20>>

SoLimite == \A k \in 1..entrada.retries : entrada.script[k] = "limite"

\* C4: for every retries >= 0, when every request fails with the rate-limit
\* error the call returns None (it does not raise); it issues exactly retries
\* requests, so never more than the retries parameter, and between
\* consecutive requests it sleeps initial_delay * 2^attempt, attempt counted
\* from 0; no call, whatever the answers, issues more than retries requests.
C4_LimitePersistente ==
    Retornou =>
       /\ Len(Requests(retorno.trace)) <= entrada.retries
       /\ SoLimite =>
             /\ retorno.ret = None
             /\ SemPrints(retorno.trace) = Alternado(entrada.retries, entrada.initial_delay)
             /\ Len(Sleeps(retorno.trace)) <= entrada.retries

C4_Witness ==
    /\ Retornou
    /\ SoLimite
    /\ entrada.retries = MaxRetries
    /\ entrada.initial_delay = INITIAL_DELAY_DEFAULT
    /\ retorno.ret = None
    /\ Len(Requests(retorno.trace)) = MaxRetries
    /\ Len(Sleeps(retorno.trace)) = MaxRetries - 1

\* The last request or sleep of the call is request number k (0-based).
TerminaNoRequest(k) ==
    LET t == SemPrints(retorno.trace) IN
    /\ Len(t) > 0
    /\ t[Len(t)] = Ev("req", k)

\* C5: an empty result, or a provider error that is not the rate-limit error,
\* ends the call at once with None: the request that got it is the last thing
\* the call does, with no sleep and no request after it, whatever the attempt
\* number and the retries left.
C5_FalhaRapida ==
    Retornou =>
       \A k \in 1..entrada.retries :
          ( /\ k \in { i + 1 : i \in { Requests(retorno.trace)[j] : j \in 1..Len(Requests(retorno.trace)) } }
            /\ (entrada.script[k] = "vazio"
                  \/ (EhExcecao(entrada.script[k]) /\ ~EhRateLimit(entrada.script[k]))) )
          => /\ retorno.ret = None
             /\ TerminaNoRequest(k - 1)

----------------------------------------------------------------------------
(* dashboard.py.  An interest that has been averaged is a fraction          *)
(* [num, den] with den > 0; NaN, the mean of an empty bin, has den = 0.     *)

Rat(n, d) == [num |-> n, den |-> d]
NaN == Rat(0, 0)
EhNaN(v) == v.den = 0

RatMenorIgual(a, b) == a.num * b.den <= b.num * a.den
RatIgual(a, b) == a.num * b.den = b.num * a.den

Ponto(data, interesse) == [data |-> data, interesse |-> interesse]

\* SELECT DISTINCT categoria FROM trends ORDER BY categoria (visualizador.py
\* lines 17-27), the names of the configuration being in alphabetical order;
\* an exception (no table) gives the empty list.
listar_categorias(b) ==
    IF ~b.tabela THEN <<>>
    ELSE LET tem(c) == \E r \in b.linhas : r.categoria = c
         IN SelectSeq([ i \in 1..NumCategorias |-> CATEGORIAS_PRAGAS[i].categoria ], tem)

\* carregar_dados (lines 42-47): the rows buscar_dados_categoria returns, as
\* a set (what follows never reads their order: groupby sorts its keys), with
\* 'data' parsed by pd.to_datetime.
carregar_dados(categoria, b) ==
    IF ~b.tabela THEN {}
    ELSE { [data |-> DiaDe[r.data], termo_busca |-> r.termo_busca,
            interesse |-> r.interesse] : r \in Seleciona(b.linhas, categoria) }

\* df_dados filtered to the selected period (lines 90-93)
df_filtrado(df_dados, start_date, end_date) ==
    { r \in df_dados : r.data >= start_date /\ r.data <= end_date }

RECURSIVE SomaInteresse(_)
SomaInteresse(S) ==
    IF S = {} THEN 0
    ELSE LET r == CHOOSE x \in S : TRUE
         IN r.interesse + SomaInteresse(S \ {r})

\* df_filtrado.groupby('data')['interesse'].sum() (line 96): date -> sum
df_agregado(filtrado) ==
    [ d \in { r.data : r \in filtrado } |->
        SomaInteresse({ r \in filtrado : r.data = d }) ]

Maximo(S) == CHOOSE x \in S : \A y \in S : y <= x
Minimo(S) == CHOOSE x \in S : \A y \in S : x <= y

\* last_date.to_period('M').to_timestamp() (lines 102-103)
start_of_last_month(agregado) == InicioDe[MesDe(Maximo(DOMAIN agregado))]

\* A split that sends the boundary date to the historical part.
df_historico_inclui_corte(agregado, corte) ==
    [ d \in { x \in DOMAIN agregado : x <= corte } |-> agregado[d] ]

\* df_agregado[df_agregado['data'] < start_of_last_month] (line 106)
df_historico(agregado, corte) ==
    [ d \in { x \in DOMAIN agregado : x < corte } |-> agregado[d] ]

\* df_agregado[df_agregado['data'] >= start_of_last_month] (line 107)
df_recente(agregado, corte) ==
    [ d \in { x \in DOMAIN agregado : x >= corte } |-> agregado[d] ]

RECURSIVE Soma(_, _)
Soma(f, S) ==
    IF S = {} THEN 0
    ELSE LET d == CHOOSE x \in S : TRUE IN f[d] + Soma(f, S \ {d})

\* .mean() of one bin
Media(f, S) == IF S = {} THEN NaN ELSE Rat(Soma(f, S), Cardinality(S))

\* set_index('data').resample('MS').mean().reset_index() (line 110): one row
\* per calendar month from the first to the last month of the frame,
\* labelled by the month's first day, NaN for a month without rows.
resample_MS(f) ==
    IF DOMAIN f = {} THEN <<>>
    ELSE LET m1 == MesDe(Minimo(DOMAIN f))
             m2 == MesDe(Maximo(DOMAIN f))
         IN [ k \in 1..(m2 - m1 + 1) |->
                Ponto(InicioDe[m1 + k - 1],
                      Media(f, { d \in DOMAIN f : MesDe(d) = m1 + k - 1 })) ]

\* The Sunday on or after day d (day 0 is a Sunday).
FimDaSemana(d) == d + ((7 - (d % 7)) % 7)

\* set_index('data').resample('W').mean().reset_index() (line 113): weeks
\* that end on Sunday, closed and labelled on the right, from the week of
\* the first row to the week of the last, NaN for a week without rows.
resample_W(f) ==
    IF DOMAIN f = {} THEN <<>>
    ELSE LET l1 == FimDaSemana(Minimo(DOMAIN f))
             l2 == FimDaSemana(Maximo(DOMAIN f))
         IN [ k \in 1..(((l2 - l1) \div 7) + 1) |->
                LET fim == l1 + 7 * (k - 1)
                IN Ponto(fim, Media(f, { d \in DOMAIN f : d > fim - 7 /\ d <= fim })) ]

\* df_final.dropna() (line 117)
dropna(seq) == SelectSeq(seq, LAMBDA p : ~EhNaN(p.interesse))

RECURSIVE sort_values(_)
\* df_final.sort_values(by='data') (line 118)
sort_values(seq) ==
    IF seq = <<>> THEN <<>>
    ELSE LET i == CHOOSE k \in 1..Len(seq) :
                      \A j \in 1..Len(seq) :
                         seq[k].data < seq[j].data \/ (seq[k].data = seq[j].data /\ k <= j)
         IN <<seq[i]>> \o sort_values(SubSeq(seq, 1, i - 1) \o SubSeq(seq, i + 1, Len(seq)))

\* df_final['interesse'].max()
max_interesse(seq) ==
    seq[CHOOSE i \in 1..Len(seq) :
           \A j \in 1..Len(seq) : RatMenorIgual(seq[j].interesse, seq[i].interesse)].interesse

\* A rescaling that leaves out the factor 100.
RenormalizaSemCem(seq) ==
    IF seq = <<>> THEN seq
    ELSE LET mx == max_interesse(seq)
         IN IF mx.num > 0
            THEN [ i \in 1..Len(seq) |->
                     Ponto(seq[i].data,
                           Rat(seq[i].interesse.num * mx.den,
                               seq[i].interesse.den * mx.num)) ]
            ELSE seq

\* Lines 121-124: (interesse / max_interesse) * 100 when the frame is not
\* empty and its maximum is above 0.
Renormaliza(seq) ==
    IF seq = <<>> THEN seq
    ELSE LET mx == max_interesse(seq)
         IN IF mx.num > 0
            THEN [ i \in 1..Len(seq) |->
                     Ponto(seq[i].data,
                           Rat(seq[i].interesse.num * mx.den * 100,
                               seq[i].interesse.den * mx.num)) ]
            ELSE seq

\* Lines 96-124 on the filtered rows: every frame of the mixed-granularity
\* aggregation.
Agrega(filtrado) ==
    LET agregado == df_agregado(filtrado)
    IN IF DOMAIN agregado = {}
       THEN [df_agregado |-> agregado, corte |-> 0, df_mensal |-> <<>>,
             df_semanal |-> <<>>, combinado |-> <<>>, df_final |-> <<>>]
       ELSE LET corte == start_of_last_month(agregado)
                mensal == resample_MS(df_historico(agregado, corte))
                semanal == resample_W(df_recente(agregado, corte))
                combinado == sort_values(dropna(mensal \o semanal))
            IN [df_agregado |-> agregado, corte |-> corte, df_mensal |-> mensal,
                df_semanal |-> semanal, combinado |-> combinado,
                df_final |-> Renormaliza(combinado)]

----------------------------------------------------------------------------
(* SpecDash: the dashboard over a table that collections have filled.       *)

\* Dates of the stored rows: 2024-12-09 and 2024-12-16 (Mondays of two
\* weeks), 2025-01-27 (a Monday whose week ends on 2025-02-02), 2025-02-01
\* and 2025-03-01 (Saturdays, the first day of their months), 2025-03-03 and
\* 2025-03-05 (one week).
DatasPainel == {8, 15, 57, 62, 90, 92, 94}

\* What the table holds for "Lesmas" on one date: nothing, or the interest
\* of each of the two terms.
OpcoesPainel == << <<>>, <<0, 0>>, <<5, 15>>, <<10, 30>> >>

LinhasDoPainel(escolha) ==
    UNION { IF OpcoesPainel[escolha[d]] = <<>> THEN {}
            ELSE { Linha(TextoDe[d], CATEGORIAS_PRAGAS[1].keywords[j],
                         OpcoesPainel[escolha[d]][j], GEOLOCATION, "Lesmas") : j \in 1..2 }
          : d \in DatasPainel }
      \cup { Linha(TextoDe[57], "rato", 100, GEOLOCATION, "Ratos") }

InitDash ==
    /\ \E escolha \in [DatasPainel -> 1..Len(OpcoesPainel)] :
          bancos = [f \in Arquivos |->
                      IF f = DB_FILE
                      THEN [existe |-> TRUE, tabela |-> TRUE, linhas |-> LinhasDoPainel(escolha)]
                      ELSE ArquivoAusente]
    /\ painel = PainelParado
    /\ antes = ArquivoAusente
    /\ pc = "off"
    /\ idx = 0
    /\ fetched = <<>>
    /\ resultado = [c \in Categorias |-> Pendente]
    /\ saida = "nenhuma"
    /\ fatal = FALSE
    /\ chamador = "nenhum"
    /\ runs = 0
    /\ leitura = SemLeitura
    /\ FetchIdle

\* dashboard.py runs with a category and a period selected (lines 39-142):
\* the file exists, so garantir_dados_locais collects nothing.
Exibir ==
    /\ painel.estado = "parado"
    /\ bancos[DB_FILE].existe
    /\ LET categorias == listar_categorias(bancos[DB_FILE])
       IN \E i \in 1..Len(categorias) :
             LET df_dados == carregar_dados(categorias[i], bancos[DB_FILE])
                 data_min == Minimo({ r.data : r \in df_dados })
                 data_max == Maximo({ r.data : r \in df_dados })
             IN \E start_date, end_date \in { d \in DatasPainel : data_min <= d /\ d <= data_max } :
                   /\ start_date <= end_date
                   /\ painel' = [estado |-> "exibido", categoria |-> categorias[i],
                                 start_date |-> start_date, end_date |-> end_date,
                                 quadros |-> Agrega(df_filtrado(df_dados, start_date, end_date))]
    /\ UNCHANGED <<fetchVars, runVars, leitorVars>>

\* The period widget holds one date only (line 143): a warning, no chart.
PeriodoIncompleto ==
    /\ painel.estado = "parado"
    /\ bancos[DB_FILE].existe
    /\ listar_categorias(bancos[DB_FILE]) # <<>>
    /\ painel' = [estado |-> "aviso"]
    /\ UNCHANGED <<fetchVars, runVars, leitorVars>>

NextDash == Exibir \/ PeriodoIncompleto

SpecDash == InitDash /\ [][NextDash]_vars

----------------------------------------------------------------------------
(* Properties of the dashboard's aggregation.                               *)

Exibido == painel.estado = "exibido"

Quadros == painel.quadros

Valores(seq) == [ i \in 1..Len(seq) |-> seq[i].interesse ]

\* The values of a frame are the whole numbers of ns, in order.
ValoresSao(seq, ns) ==
    /\ Len(seq) = Len(ns)
    /\ \A i \in 1..Len(ns) : RatIgual(seq[i].interesse, Rat(ns[i], 1))

\* Some value of the frame that no other value exceeds.
MaiorValor(seq) ==
    CHOOSE v \in ParaConjunto(Valores(seq)) :
       \A w \in ParaConjunto(Valores(seq)) : RatMenorIgual(w, v)

Cem == Rat(100, 1)
Zero == Rat(0, 1)

\* C9: the combined monthly and weekly series (its values are non-negative)
\* is rescaled by its own maximum.  When the series is not empty and its
\* maximum is above 0, every output value is value / max * 100, the largest
\* output is exactly 100 and every output lies in 0..100, the dates being
\* kept; 10, 20, 40 become 25, 50, 100.  When the maximum is 0 the series is
\* left as it is, all zero.
C9_Renormalizacao ==
    Exibido =>
       LET pre == Quadros.combinado
           fin == Quadros.df_final
       IN /\ Len(fin) = Len(pre)
          /\ \A i \in 1..Len(pre) :
                /\ fin[i].data = pre[i].data
                /\ pre[i].interesse.den > 0
                /\ pre[i].interesse.num >= 0
          /\ pre # <<>> =>
                LET mx == MaiorValor(pre)
                IN /\ mx.num > 0 =>
                        /\ \A i \in 1..Len(pre) :
                              /\ fin[i].interesse.den > 0
                              /\ fin[i].interesse.num * pre[i].interesse.den * mx.num
                                    = 100 * pre[i].interesse.num * mx.den * fin[i].interesse.den
                              /\ RatMenorIgual(Zero, fin[i].interesse)
                              /\ RatMenorIgual(fin[i].interesse, Cem)
                        /\ \E i \in 1..Len(fin) : RatIgual(fin[i].interesse, Cem)
                   /\ mx.num = 0 =>
                        /\ fin = pre
                        /\ \A i \in 1..Len(fin) : RatIgual(fin[i].interesse, Zero)
          /\ ValoresSao(pre, <<10, 20, 40>>) => ValoresSao(fin, <<25, 50, 100>>)

\* The combined series 10, 20, 40 (two monthly means and one weekly mean)
\* has been rescaled to 25, 50, 100.
C9_Witness ==
    /\ Exibido
    /\ ValoresSao(Quadros.combinado, <<10, 20, 40>>)
    /\ ValoresSao(Quadros.df_final, <<25, 50, 100>>)
    /\ Len(dropna(Quadros.df_mensal)) = 2

AnoMesDia == [ n \in Dias |-> YMD(n) ]

\* For each day of the calendar, the first day of its calendar month.
InicioDoMes ==
    [ d \in Dias |->
        CHOOSE c \in Dias : /\ AnoMesDia[c].ano = AnoMesDia[d].ano
                            /\ AnoMesDia[c].mes = AnoMesDia[d].mes
                            /\ AnoMesDia[c].dia = 1 ]

PrimeiroDoMes(d) == InicioDoMes[d]

Domingo(d) == d % 7 = 0

\* The dates of the aggregated series that point number i of the combined
\* series averages, the first nM points being monthly and the rest weekly.
DatasDoPonto(i, nM) ==
    LET agg == Quadros.df_agregado
        p == Quadros.combinado[i]
        corte == PrimeiroDoMes(Maximo(DOMAIN agg))
    IN IF i <= nM
       THEN { d \in DOMAIN agg : d < corte /\ PrimeiroDoMes(d) = p.data }
       ELSE { d \in DOMAIN agg : d >= corte /\ p.data - 6 <= d /\ d <= p.data }

\* C10: the aggregated per-date series is split at the first day of the most
\* recent calendar month it has data in.  The combined series is one monthly
\* point per earlier calendar month that has data (none for a month without
\* data), labelled by the month's first day, followed by the weekly points,
\* labelled by the Sunday that ends the week; its dates ascend, so every
\* monthly point comes before every weekly point.  Each point is the mean of
\* the dates it covers; a date before the boundary is covered by one monthly
\* point and no weekly point, a date on or after it by one weekly point and
\* no monthly point; the dates a weekly point covers all lie in the most
\* recent month.
C10_MensalSemanal ==
    (Exibido /\ DOMAIN Quadros.df_agregado # {}) =>
       LET agg == Quadros.df_agregado
           comb == Quadros.combinado
           ultima == Maximo(DOMAIN agg)
           corte == PrimeiroDoMes(ultima)
           nM == Cardinality({ PrimeiroDoMes(d) : d \in { x \in DOMAIN agg : x < corte } })
       IN /\ Quadros.corte = corte
          /\ Len(dropna(Quadros.df_mensal)) = nM
          /\ Len(comb) = nM + Len(dropna(Quadros.df_semanal))
          /\ Len(comb) >= nM + 1
          /\ \A i \in 1..Len(comb) :
                /\ DatasDoPonto(i, nM) # {}
                /\ RatIgual(comb[i].interesse,
                            Rat(Soma(agg, DatasDoPonto(i, nM)),
                                Cardinality(DatasDoPonto(i, nM))))
                /\ i <= nM => comb[i].data < corte /\ AnoMesDia[comb[i].data].dia = 1
                /\ i > nM =>
                      /\ comb[i].data >= corte
                      /\ Domingo(comb[i].data)
                      /\ \A d \in DatasDoPonto(i, nM) :
                            PrimeiroDoMes(d) = PrimeiroDoMes(ultima)
          /\ \A d \in DOMAIN agg :
                /\ Cardinality({ i \in 1..Len(comb) : d \in DatasDoPonto(i, nM) }) = 1
                /\ d < corte => \A i \in 1..Len(comb) : d \in DatasDoPonto(i, nM) => i <= nM
                /\ d >= corte => \A i \in 1..Len(comb) : d \in DatasDoPonto(i, nM) => i > nM
          /\ \A i \in 1..(Len(comb) - 1) : comb[i].data < comb[i + 1].data
          /\ Len(Quadros.df_final) = Len(comb)
          /\ \A i \in 1..Len(comb) : Quadros.df_final[i].data = comb[i].data

\* Rows in December, in February and in March from its first day on, none
\* in January: two monthly points (January emits none) and two weekly
\* points, the first for the week of the boundary date itself.
C10_Witness ==
    /\ Exibido
    /\ DOMAIN Quadros.df_agregado = {8, 15, 62, 90, 92, 94}
    /\ Quadros.corte = 90
    /\ Len(Quadros.df_mensal) = 3
    /\ EhNaN(Quadros.df_mensal[2].interesse)
    /\ Len(Quadros.combinado) = 4
    /\ Quadros.combinado[1].data = 0
    /\ Quadros.combinado[2].data = 62
    /\ Quadros.combinado[3].data = 91
    /\ Quadros.combinado[4].data = 98

----------------------------------------------------------------------------
(* The reading entry points: dashboard.py, visualizador.py run as a script  *)
(* and gerar_todos_graficos.py.  Each names the file it opens: the         *)
(* dashboard passes coletor_trends.DB_FILE, the other two pass the DB_FILE *)
(* of visualizador.py (line 15).                                           *)

\* The rows buscar_dados_categoria returns, as a set, each with the category
\* it was asked for; an exception (no table) gives the empty frame.
dados_df(categoria, b) ==
    IF ~b.tabela THEN {}
    ELSE { [categoria |-> categoria, data |-> r.data, termo_busca |-> r.termo_busca,
            interesse |-> r.interesse] : r \in Seleciona(b.linhas, categoria) }

\* gerar_grafico_categoria (visualizador.py lines 29-68), the drawing itself
\* succeeding: nothing for an empty frame, else the file
\* graficos/grafico_<categoria>.png, named here by its category.
gerar_grafico_categoria(df, categoria) ==
    IF df = {} THEN {} ELSE {categoria}

\* Names a user may type, and str.lower() on them and on the categories.
Argumentos == {"Lesmas", "ratos", "Pulgas"}

lower ==
    [ s \in Argumentos \cup Categorias |->
        CASE s = "Lesmas" -> "lesmas"
          [] s = "Ratos" -> "ratos"
          [] s = "Pulgas" -> "pulgas"
          [] OTHER -> s ]

\* next((cat for cat in categorias_disponiveis
\*       if cat.lower() == categoria_escolhida.lower()), None)  (line 106)
categoria_valida(categorias, escolha) ==
    LET S == { i \in 1..Len(categorias) : lower[categorias[i]] = lower[escolha] }
    IN IF S = {} THEN None
       ELSE categorias[CHOOSE i \in S : \A j \in S : i <= j]

\* visualizar_dados_por_categoria (lines 82-95): the frame and the chart.
visualizar_dados_por_categoria(categoria, b) ==
    LET df == dados_df(categoria, b)
    IN [registros |-> df, graficos |-> gerar_grafico_categoria(df, categoria)]

\* gerar_todos_graficos.main (lines 16-42): every listed category is loaded
\* from visualizador.DB_FILE and drawn if its frame is not empty.  Opening
\* the file creates it.
GerarTodosGraficos ==
    /\ pc # "loop"
    /\ LET b == connect(bancos[DB_FILE_VISUALIZADOR])
           categorias == listar_categorias(b)
       IN /\ bancos' = [bancos EXCEPT ![DB_FILE_VISUALIZADOR] = b]
          /\ leitura' =
                [quem |-> "gerador", categorias |-> categorias, escolhida |-> "todas",
                 registros |-> UNION { dados_df(c, b) : c \in ParaConjunto(categorias) },
                 graficos |-> UNION { gerar_grafico_categoria(dados_df(c, b), c) :
                                        c \in ParaConjunto(categorias) }]
    /\ UNCHANGED <<pc, idx, fetched, resultado, saida, chamador, runs, antes, fatal,
                   fetchVars, dashVars>>

\* visualizador.py run as a script with a category as its argument (lines
\* 99-113); the interactive mode (lines 116-137) does the same for each name
\* typed.
Visualizador ==
    /\ pc # "loop"
    /\ LET b == connect(bancos[DB_FILE_VISUALIZADOR])
           categorias_disponiveis == listar_categorias(b)
       IN /\ bancos' = [bancos EXCEPT ![DB_FILE_VISUALIZADOR] = b]
          /\ \E categoria_escolhida \in Argumentos :
                LET valida == categoria_valida(categorias_disponiveis, categoria_escolhida)
                    v == IF valida = None
                         THEN [registros |-> {}, graficos |-> {}]
                         ELSE visualizar_dados_por_categoria(valida, b)
                IN leitura' =
                      [quem |-> "visualizador", categorias |-> categorias_disponiveis,
                       escolhida |-> IF valida = None THEN "nenhuma" ELSE valida,
                       registros |-> v.registros, graficos |-> v.graficos]
    /\ UNCHANGED <<pc, idx, fetched, resultado, saida, chamador, runs, antes, fatal,
                   fetchVars, dashVars>>

\* dashboard.py up to the loading of the selected category (lines 39-77):
\* coletor_trends.DB_FILE exists, so garantir_dados_locais collects nothing
\* (when it does not, the dashboard is the caller of IniciaColeta); with no
\* category listed the script stops at line 60.
AbrirPainel ==
    /\ pc # "loop"
    /\ bancos[DB_FILE].existe
    /\ LET b == bancos[DB_FILE]
           categorias_disponiveis == listar_categorias(b)
       IN IF categorias_disponiveis = <<>>
          THEN leitura' = [quem |-> "dashboard", categorias |-> <<>>,
                           escolhida |-> "nenhuma", registros |-> {}, graficos |-> {}]
          ELSE \E i \in 1..Len(categorias_disponiveis) :
                  leitura' = [quem |-> "dashboard", categorias |-> categorias_disponiveis,
                              escolhida |-> categorias_disponiveis[i],
                              registros |-> dados_df(categorias_disponiveis[i], b),
                              graficos |-> {}]
    /\ UNCHANGED <<runVars, fetchVars, dashVars>>

NextEntradas ==
    \/ IniciaColeta
    \/ ProcessaCategoria
    \/ ErroFatal
    \/ ConcluiColeta
    \/ GerarTodosGraficos
    \/ Visualizador
    \/ AbrirPainel

SpecEntradas == Init /\ [][NextEntradas]_vars

----------------------------------------------------------------------------
(* Properties of the reading entry points.                                 *)

Leitores == {"dashboard", "visualizador", "gerador"}

\* The categories the collector's file holds rows of.
CategoriasColetadas == { r.categoria : r \in Tabela }

\* The collector's rows as a reader's frame shows them.
Coletado ==
    { [categoria |-> r.categoria, data |-> r.data, termo_busca |-> r.termo_busca,
       interesse |-> r.interesse] : r \in Tabela }

\* What reader quem listed, loaded and drew is what the collector committed:
\* every collected category is listed, every committed row of a category the
\* reader loaded is in its frame, and the batch generator has drawn one chart
\* per collected category.
LeituraFiel(quem) ==
    leitura.quem = quem =>
        /\ CategoriasColetadas \subseteq ParaConjunto(leitura.categorias)
        /\ \A r \in Coletado :
              leitura.escolhida \in {"todas", r.categoria} => r \in leitura.registros
        /\ quem = "gerador" => leitura.graficos = CategoriasColetadas

\* C11: all entry points operate on the same store: every record committed by
\* a collection run is afterwards listed and returned to the dashboard, to the
\* standalone viewer and to the batch chart generator, and after a collection
\* the batch generator writes one chart per collected category.
C11_MesmoArmazem ==
    saida = "retornou" => \A quem \in Leitores : LeituraFiel(quem)

\* The dashboard alone, which opens the collector's file.
PainelFiel == LeituraFiel("dashboard")

\* A collection run has returned with both categories saved and the batch
\* generator has run after it.
GeradorAposColeta ==
    /\ saida = "retornou"
    /\ \A c \in Categorias : resultado[c].estado = "salvo"
    /\ leitura.quem = "gerador"

\* The viewer and the batch generator open visualizador.DB_FILE, which no
\* collection run writes: they list no category and draw no chart.
OutroArquivoVazio ==
    leitura.quem \in {"visualizador", "gerador"} =>
        /\ leitura.categorias = <<>>
        /\ leitura.registros = {}
        /\ leitura.graficos = {}

====
